---- MODULE Spec2Model ----
(***************************************************************************)
(* AutoGLM-Scheduler: the device pool (device_pool.py), the task queue     *)
(* (task_queue.py) and the scheduler's assignment loop and completion      *)
(* handling (scheduler.py).                                                *)
(*                                                                         *)
(* Every method whose body runs under `with self._lock` is one atomic      *)
(* step.  Job objects are shared by reference between the collections, so  *)
(* the collections hold job ids and `jobs` holds the objects' fields.      *)
(***************************************************************************)
EXTENDS Integers, Sequences, FiniteSets, TLC

\* ---------------------------------------------------------------- bounds
\* Number of Job objects ever constructed.
MaxJobs == 2
\* Number of Job objects constructed when the queue is driven directly.
MaxQueueJobs == 3
\* Largest max_retries given to a job.
MaxRetries == 1
\* Cap of a device's total_jobs counter when the pool is driven directly.
MaxCount == 2
\* TaskQueue._max_history (100 in task_queue.py:19), scaled down.
max_history == 2
\* Number of Job objects constructed when cron templates are registered and fire.
MaxCronJobs == 3
\* Number of calls of start() and stop() made by one caller.
MaxCalls == 2
\* Largest limit given to list_history.
MaxLimit == 3

DeviceIds == {"d1", "d2"}
JobIds == 1..MaxJobs
QueueJobIds == 1..MaxQueueJobs
\* the values of max_retries given to jobs: no retry, and the largest
RetryChoices == {0, MaxRetries}
None == "None"
\* None where a job or a job id is expected
NoJob == 0

\* DeviceStatus
IDLE == "idle"
BUSY == "busy"
OFFLINE == "offline"
ERROR == "error"

\* JobStatus
PENDING == "pending"
RUNNING == "running"
SUCCESS == "success"
FAILED == "failed"
CANCELLED == "cancelled"

VARIABLES
  devices,        \* DevicePool._devices: records in insertion order
  jobs,           \* the Job objects constructed so far, by id
  queue,          \* TaskQueue._queue: job ids, head first
  running,        \* TaskQueue._running: its keys
  history,        \* TaskQueue._history: job ids, oldest first
  sched_running,  \* Scheduler._running
  worker,         \* the thread running Scheduler._worker_loop
  stopper,        \* the caller of Scheduler.stop
  execs,          \* calls of Scheduler._execute_job submitted to the executor
  holders,        \* per device: the acquire calls made since it was last not BUSY
  archived,       \* every job id appended to history, in order
  evicted,        \* job ids popped from the front of history
  fails,          \* per job: executions that raised
  on_job_complete,\* Scheduler._on_job_complete is set
  called,         \* the invocations of the completion callback: job, its n-th, status seen
  cb_raised,      \* callbacks that raised: the device, and the jobs made by then
  templates,      \* the Job objects held as args by the jobs of the APScheduler store
  fired,          \* the firings: template, job enqueued and its retry_count then
  lock_owner,     \* DevicePool._lock and TaskQueue._lock: the thread holding it
  threads,        \* per thread: the call it is at, and the locks it has taken there
  finished,       \* per registered device: the executions that have ended on it
  par,            \* the caller of Scheduler.run_parallel: its position and locals
  calls,          \* per caller of start() and stop(): the call it is in, its position
  aps_running,    \* the APScheduler BackgroundScheduler is in its running state
  exec_down,      \* ThreadPoolExecutor.shutdown has been called
  loops,          \* the threads started with target _worker_loop: their positions
  listed          \* the last call of list_history: its limit, _history then, the list returned

vars == <<devices, jobs, queue, running, history, sched_running, worker, stopper,
          execs, holders, archived, evicted, fails, on_job_complete, called,
          cb_raised, templates, fired, lock_owner, threads, finished, par, calls,
          aps_running, exec_down, loops, listed>>

Range(s) == {s[i] : i \in 1..Len(s)}

RECURSIVE Count(_, _)
Count(s, x) == IF s = <<>> THEN 0
               ELSE (IF Head(s) = x THEN 1 ELSE 0) + Count(Tail(s), x)

RemoveAt(s, i) == SubSeq(s, 1, i - 1) \o SubSeq(s, i + 1, Len(s))

\* ------------------------------------------------------------ DevicePool

Device(device_id, status) ==
  [device_id |-> device_id, status |-> status, current_job_id |-> NoJob,
   total_jobs |-> 0, success_jobs |-> 0, failed_jobs |-> 0]

\* position of device_id in the dict, 0 when it is not a key
DevIndex(devs, device_id) ==
  IF \E i \in 1..Len(devs) : devs[i].device_id = device_id
  THEN CHOOSE i \in 1..Len(devs) : devs[i].device_id = device_id
  ELSE 0

add_device_overwrite(devs, device_id, online) ==
  LET i == DevIndex(devs, device_id)
      d == Device(device_id, IF online THEN IDLE ELSE OFFLINE)
  IN IF i # 0 THEN [devices |-> [devs EXCEPT ![i] = d], ret |-> FALSE]
     ELSE [devices |-> Append(devs, d), ret |-> TRUE]

add_device(devs, device_id, online) ==
  IF DevIndex(devs, device_id) # 0
  THEN [devices |-> devs, ret |-> FALSE]
  ELSE [devices |-> Append(devs, Device(device_id, IF online THEN IDLE ELSE OFFLINE)),
        ret |-> TRUE]

remove_device_busy_too(devs, device_id) ==
  LET i == DevIndex(devs, device_id) IN
  IF i = 0 THEN [devices |-> devs, ret |-> FALSE]
  ELSE [devices |-> RemoveAt(devs, i), ret |-> TRUE]

remove_device(devs, device_id) ==
  LET i == DevIndex(devs, device_id) IN
  IF i = 0 THEN [devices |-> devs, ret |-> FALSE]
  ELSE IF devs[i].status = BUSY THEN [devices |-> devs, ret |-> FALSE]
  ELSE [devices |-> RemoveAt(devs, i), ret |-> TRUE]

get_idle_device_last(devs) ==
  IF \E i \in 1..Len(devs) : devs[i].status = IDLE
  THEN LET i == CHOOSE k \in 1..Len(devs) :
                  /\ devs[k].status = IDLE
                  /\ \A m \in (k + 1)..Len(devs) : devs[m].status # IDLE
       IN devs[i].device_id
  ELSE None

get_idle_device_any(devs) ==
  IF devs # <<>> THEN devs[1].device_id ELSE None

get_idle_device(devs) ==
  IF \E i \in 1..Len(devs) : devs[i].status = IDLE
  THEN LET i == CHOOSE k \in 1..Len(devs) :
                  /\ devs[k].status = IDLE
                  /\ \A m \in 1..(k - 1) : devs[m].status # IDLE
       IN devs[i].device_id
  ELSE None

\* DevicePool.idle_count
idle_count(devs) == Cardinality({i \in 1..Len(devs) : devs[i].status = IDLE})

acquire_device_nocheck(devs, device_id, job_id) ==
  LET i == DevIndex(devs, device_id) IN
  IF i = 0 THEN [devices |-> devs, ret |-> FALSE]
  ELSE [devices |-> [devs EXCEPT ![i].status = BUSY, ![i].current_job_id = job_id],
        ret |-> TRUE]

acquire_device(devs, device_id, job_id) ==
  LET i == DevIndex(devs, device_id) IN
  IF i = 0 THEN [devices |-> devs, ret |-> FALSE]
  ELSE IF devs[i].status # IDLE THEN [devices |-> devs, ret |-> FALSE]
  ELSE [devices |-> [devs EXCEPT ![i].status = BUSY, ![i].current_job_id = job_id],
        ret |-> TRUE]

release_device_drop_failed(devs, device_id, success) ==
  LET i == DevIndex(devs, device_id) IN
  IF i = 0 THEN [devices |-> devs, ret |-> FALSE]
  ELSE IF ~success THEN [devices |-> RemoveAt(devs, i), ret |-> TRUE]
  ELSE [devices |-> [devs EXCEPT
          ![i].status = IDLE,
          ![i].current_job_id = NoJob,
          ![i].total_jobs = @ + 1,
          ![i].success_jobs = @ + 1],
        ret |-> TRUE]

release_device_total_on_success(devs, device_id, success) ==
  LET i == DevIndex(devs, device_id) IN
  IF i = 0 THEN [devices |-> devs, ret |-> FALSE]
  ELSE [devices |-> [devs EXCEPT
          ![i].status = IDLE,
          ![i].current_job_id = NoJob,
          ![i].total_jobs = IF success THEN @ + 1 ELSE @,
          ![i].success_jobs = IF success THEN @ + 1 ELSE @,
          ![i].failed_jobs = IF success THEN @ ELSE @ + 1],
        ret |-> TRUE]

release_device_keepjob(devs, device_id, success) ==
  LET i == DevIndex(devs, device_id) IN
  IF i = 0 THEN [devices |-> devs, ret |-> FALSE]
  ELSE [devices |-> [devs EXCEPT
          ![i].status = IDLE,
          ![i].total_jobs = @ + 1,
          ![i].success_jobs = IF success THEN @ + 1 ELSE @,
          ![i].failed_jobs = IF success THEN @ ELSE @ + 1],
        ret |-> TRUE]

release_device(devs, device_id, success) ==
  LET i == DevIndex(devs, device_id) IN
  IF i = 0 THEN [devices |-> devs, ret |-> FALSE]
  ELSE [devices |-> [devs EXCEPT
          ![i].status = IDLE,
          ![i].current_job_id = NoJob,
          ![i].total_jobs = @ + 1,
          ![i].success_jobs = IF success THEN @ + 1 ELSE @,
          ![i].failed_jobs = IF success THEN @ ELSE @ + 1],
        ret |-> TRUE]

refresh_status_busy_too(devs, online) ==
  [i \in 1..Len(devs) |->
     [devs[i] EXCEPT !.status = IF devs[i].device_id \in online THEN IDLE ELSE OFFLINE]]

\* online: the device ids for which _check_device_online answers True
refresh_status(devs, online) ==
  [i \in 1..Len(devs) |->
     IF devs[i].status # BUSY
     THEN [devs[i] EXCEPT !.status = IF devs[i].device_id \in online THEN IDLE ELSE OFFLINE]
     ELSE devs[i]]

\* per device, since it was last not BUSY: the job ids whose acquire_device call
\* returned True (won) and those whose call returned False (lost)
Holders(h, devs2, device_id, job_id, ret) ==
  [d \in DeviceIds |->
     IF DevIndex(devs2, d) = 0 \/ devs2[DevIndex(devs2, d)].status # BUSY
     THEN [won |-> {}, lost |-> {}]
     ELSE IF d = device_id /\ job_id # NoJob
     THEN IF ret THEN [h[d] EXCEPT !.won = @ \cup {job_id}]
                 ELSE [h[d] EXCEPT !.lost = @ \cup {job_id}]
     ELSE h[d]]

\* the threads that call the pool and the queue: the one of _worker_loop, the
\* threads of the executor running _execute_job, and a caller of the public API
LockThreads == {"loop", "exec1", "exec2", "api"}
\* the threads that call start() and stop()
Callers == {"c1", "c2"}
Locks == {"pool", "queue"}

\* the objects as their constructors leave them
Constructed ==
  /\ devices = <<>>
  /\ jobs = <<>>
  /\ queue = <<>>
  /\ running = {}
  /\ history = <<>>
  /\ sched_running = FALSE
  /\ worker = [pc |-> "none", idle |-> None, job |-> NoJob, target |-> None]
  /\ stopper = "none"
  /\ execs = <<>>
  /\ holders = [d \in DeviceIds |-> [won |-> {}, lost |-> {}]]
  /\ finished = [d \in DeviceIds |-> [success |-> 0, failed |-> 0]]
  /\ archived = <<>>
  /\ evicted = {}
  /\ fails = <<>>
  /\ called = {}
  /\ cb_raised = {}
  /\ templates = {}
  /\ fired = {}
  /\ lock_owner = [l \in Locks |-> None]
  /\ threads = [t \in LockThreads |->
                  [site |-> IF t = "loop" THEN "get_idle_device" ELSE "return",
                   held |-> 0]]
  /\ par = [pc |-> "none", n |-> 0, batch |-> <<>>, scan |-> 0, results |-> <<>>]
  /\ calls = [c \in Callers |-> [pc |-> "idle", made |-> 0]]
  /\ aps_running = FALSE
  /\ exec_down = FALSE
  /\ loops = <<>>
  /\ listed = [called |-> FALSE, limit |-> 0, of |-> <<>>, ret |-> <<>>]

\* finished after a call that leaves the pool as devs2: an execution that has
\* ended on device_id with this outcome ("success", "failed") is counted; a device
\* that is not registered has no count
Finished(f, devs2, device_id, outcome) ==
  [d \in DeviceIds |->
     IF DevIndex(devs2, d) = 0 THEN [success |-> 0, failed |-> 0]
     ELSE IF d = device_id /\ outcome = "success" THEN [f[d] EXCEPT !.success = @ + 1]
     ELSE IF d = device_id /\ outcome = "failed" THEN [f[d] EXCEPT !.failed = @ + 1]
     ELSE f[d]]

Init ==
  /\ Constructed
  /\ on_job_complete = FALSE

\* ------------------------------------------- the pool driven by its callers

QueueVars == <<jobs, queue, running, history, archived, evicted, fails>>
CallbackVars == <<on_job_complete, called, cb_raised>>
CronVars == <<templates, fired>>
LockVars == <<lock_owner, threads>>
ParVars == <<par>>
StartVars == <<calls, aps_running, exec_down, loops>>
ListVars == <<listed>>
ExtVars == <<CallbackVars, CronVars, LockVars, ParVars, StartVars, ListVars>>
SchedVars == <<sched_running, worker, stopper, execs, ExtVars>>

PoolAdd(d, online) ==
  LET r == add_device(devices, d, online) IN
  /\ devices' = r.devices
  /\ holders' = Holders(holders, r.devices, d, NoJob, FALSE)
  /\ finished' = Finished(finished, r.devices, None, None)
  /\ UNCHANGED <<QueueVars, SchedVars>>

PoolRemove(d) ==
  LET r == remove_device(devices, d) IN
  /\ devices' = r.devices
  /\ holders' = Holders(holders, r.devices, d, NoJob, FALSE)
  /\ finished' = Finished(finished, r.devices, None, None)
  /\ UNCHANGED <<QueueVars, SchedVars>>

PoolAcquire(d, j) ==
  LET r == acquire_device(devices, d, j) IN
  /\ devices' = r.devices
  /\ holders' = Holders(holders, r.devices, d, j, r.ret)
  /\ finished' = Finished(finished, r.devices, None, None)
  /\ UNCHANGED <<QueueVars, SchedVars>>

PoolRelease(d, success) ==
  LET r == release_device(devices, d, success) IN
  /\ \A i \in 1..Len(devices) : devices[i].total_jobs < MaxCount
  /\ devices' = r.devices
  /\ holders' = Holders(holders, r.devices, d, NoJob, FALSE)
  /\ finished' = Finished(finished, r.devices, None, None)
  /\ UNCHANGED <<QueueVars, SchedVars>>

PoolRefresh(online) ==
  /\ devices' = refresh_status(devices, online)
  /\ holders' = Holders(holders, devices', None, NoJob, FALSE)
  /\ finished' = Finished(finished, devices', None, None)
  /\ UNCHANGED <<QueueVars, SchedVars>>

NextPool ==
  \/ \E d \in DeviceIds, online \in BOOLEAN : PoolAdd(d, online)
  \/ \E d \in DeviceIds : PoolRemove(d)
  \/ \E d \in DeviceIds, j \in JobIds : PoolAcquire(d, j)
  \/ \E d \in DeviceIds, success \in BOOLEAN : PoolRelease(d, success)
  \/ \E online \in SUBSET DeviceIds : PoolRefresh(online)

SpecPool == Init /\ [][NextPool]_vars

\* -------------------------------------------------------------- TaskQueue

\* Job(...): a new object, id generated at construction
Job(device_id, max_retries) ==
  [status |-> PENDING, retry_count |-> 0, max_retries |-> max_retries,
   device_id |-> device_id, result |-> None, cron |-> None]

\* Job(..., cron=cron, ...); name and task are passed along with cron and never
\* assigned again, cron stands for the three
CronJob(cron, device_id, max_retries) ==
  [Job(device_id, max_retries) EXCEPT !.cron = cron]

\* the queue's collections and the Job objects they refer to
Q == [jobs |-> jobs, queue |-> queue, running |-> running, history |-> history]

\* TaskQueue.pending_count
pending_count(q) == Len(q.queue)

enqueue_counting_retry(q, job_id) ==
  [q EXCEPT !.jobs[job_id].status = PENDING,
            !.jobs[job_id].retry_count = @ + 1,
            !.queue = Append(@, job_id)]

enqueue_at_head(q, job_id) ==
  [q EXCEPT !.jobs[job_id].status = PENDING,
            !.queue = <<job_id>> \o @]

enqueue(q, job_id) ==
  [q EXCEPT !.jobs[job_id].status = PENDING,
            !.queue = Append(@, job_id)]

dequeue(q) ==
  IF q.queue = <<>> THEN [q |-> q, ret |-> NoJob]
  ELSE LET job_id == Head(q.queue) IN
       [q |-> [q EXCEPT !.queue = Tail(@),
                        !.jobs[job_id].status = RUNNING,
                        !.running = @ \cup {job_id}],
        ret |-> job_id]

complete_evict_newest(q, job_id, success) ==
  IF job_id \notin q.running THEN [q |-> q, ret |-> FALSE]
  ELSE LET h == Append(q.history, job_id) IN
       [q |-> [q EXCEPT !.running = @ \ {job_id},
                        !.jobs[job_id].status = IF success THEN SUCCESS ELSE FAILED,
                        !.history = IF Len(h) > max_history
                                    THEN SubSeq(h, 1, Len(h) - 1) ELSE h],
        ret |-> TRUE]

complete_keep_running(q, job_id, success) ==
  IF job_id \notin q.running THEN [q |-> q, ret |-> FALSE]
  ELSE LET h == Append(q.history, job_id) IN
       [q |-> [q EXCEPT !.jobs[job_id].status = IF success THEN SUCCESS ELSE FAILED,
                        !.history = IF Len(h) > max_history THEN Tail(h) ELSE h],
        ret |-> TRUE]

complete_unchecked(q, job_id, success) ==
  LET h == Append(q.history, job_id) IN
  [q |-> [q EXCEPT !.running = @ \ {job_id},
                   !.jobs = [k \in DOMAIN @ |->
                               IF k = job_id
                               THEN [@[k] EXCEPT !.status = IF success THEN SUCCESS
                                                             ELSE FAILED]
                               ELSE @[k]],
                   !.history = IF Len(h) > max_history THEN Tail(h) ELSE h],
   ret |-> TRUE]

complete(q, job_id, success) ==
  IF job_id \notin q.running THEN [q |-> q, ret |-> FALSE]
  ELSE LET h == Append(q.history, job_id) IN
       [q |-> [q EXCEPT !.running = @ \ {job_id},
                        !.jobs[job_id].status = IF success THEN SUCCESS ELSE FAILED,
                        !.history = IF Len(h) > max_history THEN Tail(h) ELSE h],
        ret |-> TRUE]

retry_unbounded(q, job_id) ==
  IF job_id \notin q.running THEN [q |-> q, ret |-> FALSE]
  ELSE [q |-> [q EXCEPT !.running = @ \ {job_id},
                        !.jobs[job_id].retry_count = @ + 1,
                        !.jobs[job_id].status = PENDING,
                        !.queue = <<job_id>> \o @],
        ret |-> TRUE]

retry_to_tail(q, job_id) ==
  IF job_id \notin q.running THEN [q |-> q, ret |-> FALSE]
  ELSE IF q.jobs[job_id].retry_count >= q.jobs[job_id].max_retries
  THEN [q |-> [q EXCEPT !.running = @ \ {job_id},
                        !.jobs[job_id].status = FAILED,
                        !.history = Append(@, job_id)],
        ret |-> FALSE]
  ELSE [q |-> [q EXCEPT !.running = @ \ {job_id},
                        !.jobs[job_id].retry_count = @ + 1,
                        !.jobs[job_id].status = PENDING,
                        !.queue = Append(@, job_id)],
        ret |-> TRUE]

retry(q, job_id) ==
  IF job_id \notin q.running THEN [q |-> q, ret |-> FALSE]
  ELSE IF q.jobs[job_id].retry_count >= q.jobs[job_id].max_retries
  THEN [q |-> [q EXCEPT !.running = @ \ {job_id},
                        !.jobs[job_id].status = FAILED,
                        !.history = Append(@, job_id)],
        ret |-> FALSE]
  ELSE [q |-> [q EXCEPT !.running = @ \ {job_id},
                        !.jobs[job_id].retry_count = @ + 1,
                        !.jobs[job_id].status = PENDING,
                        !.queue = <<job_id>> \o @],
        ret |-> TRUE]

\* position of the first pending job with this id, 0 when there is none
QueueIndex(q, job_id) ==
  IF \E i \in 1..Len(q.queue) : q.queue[i] = job_id
  THEN CHOOSE i \in 1..Len(q.queue) :
         /\ q.queue[i] = job_id
         /\ \A k \in 1..(i - 1) : q.queue[k] # job_id
  ELSE 0

cancel_running_too(q, job_id) ==
  LET i == QueueIndex(q, job_id) IN
  IF i # 0
  THEN [q |-> [q EXCEPT !.jobs[job_id].status = CANCELLED,
                        !.queue = RemoveAt(@, i),
                        !.history = Append(@, job_id)],
        ret |-> TRUE]
  ELSE IF job_id \in q.running
  THEN [q |-> [q EXCEPT !.jobs[job_id].status = CANCELLED,
                        !.running = @ \ {job_id},
                        !.history = Append(@, job_id)],
        ret |-> TRUE]
  ELSE [q |-> q, ret |-> FALSE]

cancel(q, job_id) ==
  LET i == QueueIndex(q, job_id) IN
  IF i # 0
  THEN [q |-> [q EXCEPT !.jobs[job_id].status = CANCELLED,
                        !.queue = RemoveAt(@, i),
                        !.history = Append(@, job_id)],
        ret |-> TRUE]
  ELSE [q |-> q, ret |-> FALSE]

clear(q) ==
  [q |-> [q EXCEPT !.jobs = [j \in DOMAIN q.jobs |->
                               IF j \in Range(q.queue)
                               THEN [q.jobs[j] EXCEPT !.status = CANCELLED]
                               ELSE q.jobs[j]],
                   !.history = @ \o q.queue,
                   !.queue = <<>>],
   ret |-> Len(q.queue)]

\* TaskQueue.list_history(limit): self._history[-limit:], a new list.  The slice
\* starts at index -limit: counted from the end when negative (not before the
\* first entry), from the front otherwise (-0 is 0)
list_history(q, limit) ==
  LET n == Len(q.history)
      start == IF -limit < 0
               THEN (IF n - limit > 0 THEN n - limit ELSE 0)
               ELSE (IF -limit < n THEN -limit ELSE n)
  IN SubSeq(q.history, start + 1, n)

\* appended: the ids the call appended to history
SetQ(q2, appended) ==
  /\ jobs' = q2.jobs
  /\ queue' = q2.queue
  /\ running' = q2.running
  /\ history' = q2.history
  /\ archived' = archived \o appended
  /\ evicted' = evicted \cup ((Range(history) \cup Range(appended)) \ Range(q2.history))

\* ------------------------------------------ the queue driven by its callers

PoolVars == <<devices, holders, finished>>

\* enqueue(Job(...)): a Job constructed by the caller
QEnqueue(max_retries) ==
  /\ Len(jobs) < MaxQueueJobs
  /\ LET job_id == Len(jobs) + 1
         q1 == [Q EXCEPT !.jobs = Append(@, Job(None, max_retries))]
     IN /\ SetQ(enqueue(q1, job_id), <<>>)
        /\ fails' = Append(fails, 0)
  /\ UNCHANGED <<PoolVars, SchedVars>>

QDequeue ==
  LET r == dequeue(Q) IN
  /\ SetQ(r.q, <<>>)
  /\ UNCHANGED <<fails, PoolVars, SchedVars>>

QComplete(job_id, success) ==
  LET r == complete(Q, job_id, success) IN
  /\ SetQ(r.q, IF r.ret THEN <<job_id>> ELSE <<>>)
  /\ UNCHANGED <<fails, PoolVars, SchedVars>>

QRetry(job_id) ==
  LET r == retry(Q, job_id) IN
  /\ SetQ(r.q, IF job_id \in running /\ ~r.ret THEN <<job_id>> ELSE <<>>)
  /\ UNCHANGED <<fails, PoolVars, SchedVars>>

QCancel(job_id) ==
  LET r == cancel(Q, job_id) IN
  /\ SetQ(r.q, IF r.ret THEN <<job_id>> ELSE <<>>)
  /\ UNCHANGED <<fails, PoolVars, SchedVars>>

QClear ==
  LET r == clear(Q) IN
  /\ SetQ(r.q, queue)
  /\ UNCHANGED <<fails, PoolVars, SchedVars>>

NextQueue ==
  \/ \E max_retries \in RetryChoices : QEnqueue(max_retries)
  \/ QDequeue
  \/ \E j \in QueueJobIds, success \in BOOLEAN : QComplete(j, success)
  \/ \E j \in QueueJobIds : QRetry(j)
  \/ \E j \in QueueJobIds : QCancel(j)
  \/ QClear

SpecQueue == Init /\ [][NextQueue]_vars

\* enqueue, dequeue and complete only
NextComplete ==
  \/ \E max_retries \in RetryChoices : QEnqueue(max_retries)
  \/ QDequeue
  \/ \E j \in QueueJobIds, success \in BOOLEAN : QComplete(j, success)

SpecComplete == Init /\ [][NextComplete]_vars

\* a caller of list_history(limit) keeps the list it got
QListHistory(limit) ==
  /\ listed' = [called |-> TRUE, limit |-> limit, of |-> history,
                ret |-> list_history(Q, limit)]
  /\ UNCHANGED <<PoolVars, QueueVars, sched_running, worker, stopper, execs,
                 CallbackVars, CronVars, LockVars, ParVars, StartVars>>

\* the queue's callers and a caller of list_history
NextHistory ==
  \/ \E max_retries \in RetryChoices : QEnqueue(max_retries)
  \/ QDequeue
  \/ \E j \in QueueJobIds, success \in BOOLEAN : QComplete(j, success)
  \/ \E j \in QueueJobIds : QRetry(j)
  \/ \E j \in QueueJobIds : QCancel(j)
  \/ \E limit \in 0..MaxLimit : QListHistory(limit)

SpecHistory == Init /\ [][NextHistory]_vars

\* -------------------------------------------------------------- Scheduler

\* Scheduler.add_job: Job(...) then _enqueue_job(job, create_new=False)
AddJob(device_id, max_retries) ==
  /\ Len(jobs) < MaxJobs
  /\ LET job_id == Len(jobs) + 1
         q1 == [Q EXCEPT !.jobs = Append(@, Job(device_id, max_retries))]
     IN /\ SetQ(enqueue(q1, job_id), <<>>)
        /\ fails' = Append(fails, 0)
  /\ UNCHANGED <<PoolVars, SchedVars>>

enqueue_job_same_object(q, job_id, create_new) ==
  [q |-> enqueue(q, job_id), ret |-> job_id]

\* Scheduler._enqueue_job(job, create_new); ret is the job that was enqueued
enqueue_job(q, job_id, create_new) ==
  IF create_new
  THEN LET job == q.jobs[job_id]
           new_id == Len(q.jobs) + 1
           q1 == [q EXCEPT !.jobs = Append(@, CronJob(job.cron, job.device_id,
                                                      job.max_retries))]
       IN [q |-> enqueue(q1, new_id), ret |-> new_id]
  ELSE [q |-> enqueue(q, job_id), ret |-> job_id]

\* Scheduler.add_cron_job: the template Job goes to the APScheduler store only
AddCronJob(device_id, max_retries) ==
  /\ Len(jobs) < MaxCronJobs
  /\ jobs' = Append(jobs, CronJob("cron", device_id, max_retries))
  /\ fails' = Append(fails, 0)
  /\ templates' = templates \cup {Len(jobs) + 1}
  /\ UNCHANGED <<queue, running, history, archived, evicted, fired, CallbackVars,
                 LockVars, ParVars, StartVars, ListVars, PoolVars, sched_running, worker, stopper, execs>>

\* the cron trigger of template t fires, once Scheduler.start has started the
\* APScheduler: self._enqueue_job(job) with create_new left at True
CronFire(t) ==
  /\ sched_running
  /\ Len(jobs) < MaxCronJobs
  /\ LET r == enqueue_job(Q, t, TRUE) IN
     /\ SetQ(r.q, <<>>)
     /\ fails' = IF Len(r.q.jobs) > Len(jobs) THEN Append(fails, 0) ELSE fails
     /\ fired' = fired \cup {[template |-> t, job |-> r.ret,
                              n |-> Cardinality(fired) + 1,
                              retry_count |-> r.q.jobs[r.ret].retry_count]}
  /\ UNCHANGED <<templates, CallbackVars, LockVars, ParVars, StartVars, ListVars, PoolVars, sched_running, worker,
                 stopper, execs>>

\* Scheduler.cancel_job
CancelJob(job_id) ==
  /\ LET r == cancel(Q, job_id) IN
     SetQ(r.q, IF r.ret THEN <<job_id>> ELSE <<>>)
  /\ UNCHANGED <<fails, PoolVars, SchedVars>>

\* Scheduler.add_device(device_id), with self.mock_mode: it calls
\* self._device_pool.add_device(device_id, force_online=self.mock_mode), and
\* DevicePool.add_device(self, device_id) has no parameter force_online, so the
\* call raises TypeError before the pool is read or changed; nothing catches it
scheduler_add_device(devs, device_id, mock_mode) ==
  [devices |-> devs, ret |-> None, raised |-> TRUE]

\* DevicePool.add_device on the scheduler's pool; online is the answer of
\* _check_device_online
AddDevice(d, online) ==
  LET r == add_device(devices, d, online) IN
  /\ devices' = r.devices
  /\ holders' = Holders(holders, r.devices, d, NoJob, FALSE)
  /\ finished' = Finished(finished, r.devices, None, None)
  /\ UNCHANGED <<QueueVars, SchedVars>>

\* Scheduler.remove_device
RemoveDevice(d) ==
  LET r == remove_device(devices, d) IN
  /\ devices' = r.devices
  /\ holders' = Holders(holders, r.devices, d, NoJob, FALSE)
  /\ finished' = Finished(finished, r.devices, None, None)
  /\ UNCHANGED <<QueueVars, SchedVars>>

\* Scheduler.start, first call: sets _running and starts the thread of _worker_loop
Start ==
  /\ ~sched_running
  /\ worker.pc = "none"
  /\ sched_running' = TRUE
  /\ worker' = [worker EXCEPT !.pc = "top"]
  /\ UNCHANGED <<ExtVars, PoolVars, QueueVars, stopper, execs>>

\* Scheduler.stop: self._running = False
StopFlag ==
  /\ stopper = "none"
  /\ worker.pc # "none"
  /\ sched_running' = FALSE
  /\ stopper' = "shutdown"
  /\ UNCHANGED <<ExtVars, PoolVars, QueueVars, worker, execs>>

\* Scheduler.stop: self._executor.shutdown(wait=True), no new submissions from here on
StopShutdown ==
  /\ stopper = "shutdown"
  /\ stopper' = "wait"
  /\ UNCHANGED <<ExtVars, PoolVars, QueueVars, sched_running, worker, execs>>

\* Scheduler.stop: shutdown(wait=True) returns when every submitted call has ended
StopReturn ==
  /\ stopper = "wait"
  /\ execs = <<>>
  /\ stopper' = "returned"
  /\ UNCHANGED <<ExtVars, PoolVars, QueueVars, sched_running, worker, execs>>

\* _worker_loop: while self._running
WTop ==
  /\ worker.pc = "top"
  /\ worker' = [worker EXCEPT !.pc = IF sched_running THEN "get_idle" ELSE "exit"]
  /\ UNCHANGED <<ExtVars, PoolVars, QueueVars, sched_running, stopper, execs>>

\* _worker_loop: idle_device = get_idle_device(); None: sleep and continue
WGetIdle ==
  /\ worker.pc = "get_idle"
  /\ LET d == get_idle_device(devices) IN
     worker' = [worker EXCEPT !.idle = d, !.pc = IF d = None THEN "top" ELSE "dequeue"]
  /\ UNCHANGED <<ExtVars, PoolVars, QueueVars, sched_running, stopper, execs>>

\* _worker_loop: job = dequeue(); None: sleep and continue
WDequeue ==
  /\ worker.pc = "dequeue"
  /\ LET r == dequeue(Q) IN
     /\ SetQ(r.q, <<>>)
     /\ worker' = IF r.ret = NoJob
                  THEN [worker EXCEPT !.pc = "top", !.idle = None]
                  ELSE [worker EXCEPT !.pc = "acquire", !.job = r.ret]
  /\ UNCHANGED <<ExtVars, fails, PoolVars, sched_running, stopper, execs>>

target_device_idle_only(job, idle_device) == idle_device

\* _worker_loop: target_device = job.device_id or idle_device
target_device(job, idle_device) ==
  IF job.device_id # None THEN job.device_id ELSE idle_device

\* _worker_loop: acquire_device(target_device, job.id)
WAcquire ==
  /\ worker.pc = "acquire"
  /\ LET target == target_device(jobs[worker.job], worker.idle)
         r == acquire_device(devices, target, worker.job)
     IN /\ devices' = r.devices
        /\ holders' = Holders(holders, r.devices, target, worker.job, r.ret)
        /\ finished' = Finished(finished, r.devices, None, None)
        /\ worker' = [worker EXCEPT !.pc = IF r.ret THEN "submit" ELSE "requeue",
                                    !.target = target]
  /\ UNCHANGED <<ExtVars, QueueVars, sched_running, stopper, execs>>

\* _worker_loop: acquire failed: self._task_queue.enqueue(job); continue
WRequeue ==
  /\ worker.pc = "requeue"
  /\ SetQ(enqueue(Q, worker.job), <<>>)
  /\ worker' = [worker EXCEPT !.pc = "top", !.idle = None, !.job = NoJob, !.target = None]
  /\ UNCHANGED <<ExtVars, fails, PoolVars, sched_running, stopper, execs>>

\* _worker_loop: self._executor.submit(self._execute_job, job, target_device);
\* submit raises once the executor has been shut down, which ends the thread.
\* The call records what its queue call and its release_device returned.
\* Every submitted call holds a device of its own, so with at most max_workers (5)
\* devices no call waits for a worker thread.
WSubmit ==
  /\ worker.pc = "submit"
  /\ IF stopper \in {"wait", "returned"}
     THEN /\ worker' = [worker EXCEPT !.pc = "raised"]
          /\ execs' = execs
     ELSE /\ worker' = [worker EXCEPT !.pc = "top", !.idle = None, !.job = NoJob,
                                      !.target = None]
          /\ execs' = Append(execs, [job |-> worker.job, device |-> worker.target,
                                     pc |-> "run", moved |-> FALSE,
                                     released |-> FALSE])
  /\ UNCHANGED <<ExtVars, PoolVars, QueueVars, sched_running, stopper>>

\* _execute_job: the executor returns or raises; job.result is set
ERun(e, ok) ==
  /\ execs[e].pc = "run"
  /\ execs' = [execs EXCEPT ![e].pc = IF ok THEN "complete" ELSE "except"]
  /\ jobs' = [jobs EXCEPT ![execs[e].job].result = IF ok THEN "ok" ELSE "error"]
  /\ fails' = [fails EXCEPT ![execs[e].job] = IF ok THEN @ ELSE @ + 1]
  /\ UNCHANGED <<ExtVars, PoolVars, queue, running, history, archived, evicted,
                 sched_running, worker, stopper>>

\* _execute_job, except branch: if job.retry_count < job.max_retries
EExcept(e) ==
  /\ execs[e].pc = "except"
  /\ LET job == jobs[execs[e].job] IN
     execs' = [execs EXCEPT ![e].pc = IF job.retry_count < job.max_retries
                                      THEN "retry" ELSE "complete_failed"]
  /\ UNCHANGED <<ExtVars, PoolVars, QueueVars, sched_running, worker, stopper>>

\* _execute_job: self._task_queue.complete(job.id, success=True)
EComplete(e) ==
  /\ execs[e].pc = "complete"
  /\ LET r == complete(Q, execs[e].job, TRUE) IN
     SetQ(r.q, IF r.ret THEN <<execs[e].job>> ELSE <<>>)
  /\ execs' = [execs EXCEPT ![e].pc = "release_ok",
                             ![e].moved = complete(Q, execs[e].job, TRUE).ret]
  /\ UNCHANGED <<ExtVars, fails, PoolVars, sched_running, worker, stopper>>

\* _execute_job: self._task_queue.retry(job.id)
ERetry(e) ==
  /\ execs[e].pc = "retry"
  /\ LET r == retry(Q, execs[e].job) IN
     SetQ(r.q, IF execs[e].job \in running /\ ~r.ret THEN <<execs[e].job>> ELSE <<>>)
  /\ execs' = [execs EXCEPT ![e].pc = "release_failed",
                             ![e].moved = retry(Q, execs[e].job).ret]
  /\ UNCHANGED <<ExtVars, fails, PoolVars, sched_running, worker, stopper>>

\* _execute_job: self._task_queue.complete(job.id, success=False)
ECompleteFailed(e) ==
  /\ execs[e].pc = "complete_failed"
  /\ LET r == complete(Q, execs[e].job, FALSE) IN
     SetQ(r.q, IF r.ret THEN <<execs[e].job>> ELSE <<>>)
  /\ execs' = [execs EXCEPT ![e].pc = "release_failed",
                             ![e].moved = complete(Q, execs[e].job, FALSE).ret]
  /\ UNCHANGED <<ExtVars, fails, PoolVars, sched_running, worker, stopper>>

ERelease_skipped(e) ==
  /\ execs[e].pc \in {"release_ok", "release_failed"}
  /\ execs' = IF on_job_complete
              THEN [execs EXCEPT ![e].pc = "callback"]
              ELSE RemoveAt(execs, e)
  /\ UNCHANGED <<ExtVars, PoolVars, QueueVars, sched_running, worker, stopper>>

\* _execute_job: self._device_pool.release_device(device_id, success), then
\* `if self._on_job_complete`: without a callback the call ends
ERelease(e) ==
  /\ execs[e].pc \in {"release_ok", "release_failed"}
  /\ LET r == release_device(devices, execs[e].device, execs[e].pc = "release_ok") IN
     /\ devices' = r.devices
     /\ holders' = Holders(holders, r.devices, execs[e].device, NoJob, FALSE)
     /\ finished' = Finished(finished, r.devices, execs[e].device,
                             IF execs[e].pc = "release_ok" THEN "success" ELSE "failed")
     /\ execs' = IF on_job_complete
                 THEN [execs EXCEPT ![e].pc = "callback", ![e].released = r.ret]
                 ELSE RemoveAt(execs, e)
  /\ UNCHANGED <<ExtVars, QueueVars, sched_running, worker, stopper>>

\* the number of invocations of the completion callback with job j
Calls(j) == Cardinality({c \in called : c.job = j})

\* _execute_job: self._on_job_complete(job); the callback sees the job as it is
\* now.  When it raises, the exception ends the call and is kept in the Future
\* that submit returned, which nobody reads.
ECallback(e, raises) ==
  /\ execs[e].pc = "callback"
  /\ called' = called \cup {[job |-> execs[e].job, n |-> Calls(execs[e].job) + 1,
                              status |-> jobs[execs[e].job].status]}
  /\ cb_raised' = IF raises
                  THEN cb_raised \cup {[device |-> execs[e].device, made |-> Len(jobs)]}
                  ELSE cb_raised
  /\ execs' = RemoveAt(execs, e)
  /\ UNCHANGED <<on_job_complete, CronVars, LockVars, ParVars, StartVars, ListVars, PoolVars, QueueVars,
                 sched_running, worker, stopper>>

Next ==
  \/ \E d \in DeviceIds \cup {None}, max_retries \in RetryChoices : AddJob(d, max_retries)
  \/ \E j \in JobIds : CancelJob(j)
  \/ \E d \in DeviceIds, online \in BOOLEAN : AddDevice(d, online)
  \/ \E d \in DeviceIds : RemoveDevice(d)
  \/ Start
  \/ WTop
  \/ WGetIdle
  \/ WDequeue
  \/ WAcquire
  \/ WRequeue
  \/ WSubmit
  \/ \E e \in 1..Len(execs), ok \in BOOLEAN : ERun(e, ok)
  \/ \E e \in 1..Len(execs) : EExcept(e)
  \/ \E e \in 1..Len(execs) : EComplete(e)
  \/ \E e \in 1..Len(execs) : ERetry(e)
  \/ \E e \in 1..Len(execs) : ECompleteFailed(e)
  \/ \E e \in 1..Len(execs) : ERelease(e)

Spec == Init /\ [][Next]_vars

\* the scheduler with a caller of stop(), next to callers of add_job and
\* add_device
NextStop ==
  \/ \E d \in DeviceIds \cup {None}, max_retries \in RetryChoices : AddJob(d, max_retries)
  \/ \E d \in DeviceIds, online \in BOOLEAN : AddDevice(d, online)
  \/ Start
  \/ StopFlag
  \/ StopShutdown
  \/ StopReturn
  \/ WTop
  \/ WGetIdle
  \/ WDequeue
  \/ WAcquire
  \/ WRequeue
  \/ WSubmit
  \/ \E e \in 1..Len(execs), ok \in BOOLEAN : ERun(e, ok)
  \/ \E e \in 1..Len(execs) : EExcept(e)
  \/ \E e \in 1..Len(execs) : EComplete(e)
  \/ \E e \in 1..Len(execs) : ERetry(e)
  \/ \E e \in 1..Len(execs) : ECompleteFailed(e)
  \/ \E e \in 1..Len(execs) : ERelease(e)

SpecStop == Init /\ [][NextStop]_vars

\* Scheduler(...) followed by on_job_complete(callback)
InitCallback ==
  /\ Constructed
  /\ on_job_complete = TRUE

\* the scheduler with a completion callback: jobs and devices are added, the loop
\* assigns them, and every execution ends with the callback
NextCallback ==
  \/ \E d \in DeviceIds \cup {None}, max_retries \in RetryChoices : AddJob(d, max_retries)
  \/ \E d \in DeviceIds, online \in BOOLEAN : AddDevice(d, online)
  \/ Start
  \/ WTop
  \/ WGetIdle
  \/ WDequeue
  \/ WAcquire
  \/ WRequeue
  \/ WSubmit
  \/ \E e \in 1..Len(execs), ok \in BOOLEAN : ERun(e, ok)
  \/ \E e \in 1..Len(execs) : EExcept(e)
  \/ \E e \in 1..Len(execs) : EComplete(e)
  \/ \E e \in 1..Len(execs) : ERetry(e)
  \/ \E e \in 1..Len(execs) : ECompleteFailed(e)
  \/ \E e \in 1..Len(execs) : ERelease(e)
  \/ \E e \in 1..Len(execs), raises \in BOOLEAN : ECallback(e, raises)

SpecCallback == InitCallback /\ [][NextCallback]_vars

\* one device, online, and jobs without a pinned device: in the loop acquire_device
\* is always called for the device that get_idle_device has just returned, which
\* nobody else acquires, so the branch of the refused acquire has no step here
NextSingle ==
  \/ \E max_retries \in RetryChoices : AddJob(None, max_retries)
  \/ AddDevice("d1", TRUE)
  \/ Start
  \/ WTop
  \/ WGetIdle
  \/ WDequeue
  \/ WAcquire
  \/ WSubmit
  \/ \E e \in 1..Len(execs), ok \in BOOLEAN : ERun(e, ok)
  \/ \E e \in 1..Len(execs) : EExcept(e)
  \/ \E e \in 1..Len(execs) : EComplete(e)
  \/ \E e \in 1..Len(execs) : ERetry(e)
  \/ \E e \in 1..Len(execs) : ECompleteFailed(e)
  \/ \E e \in 1..Len(execs) : ERelease(e)

SpecSingle == Init /\ [][NextSingle]_vars

\* ------------------------------------------------------------ the locks

LockPath_nested(site) ==
  IF site = "acquire_device" THEN <<"pool", "queue">>
  ELSE IF site \in {"get_idle_device", "release_device", "add_device", "remove_device"}
  THEN <<"pool">>
  ELSE IF site \in {"complete", "retry"} THEN <<"queue", "pool">>
  ELSE IF site \in {"dequeue", "enqueue", "cancel"}
  THEN <<"queue">>
  ELSE <<>>

\* the locks a call takes, outermost first: every DevicePool method runs under
\* `with self._lock` of the pool and every TaskQueue method under that of the
\* queue, none calls the other object; Scheduler._lock is never taken
LockPath(site) ==
  IF site \in {"get_idle_device", "acquire_device", "release_device", "add_device",
               "remove_device"}
  THEN <<"pool">>
  ELSE IF site \in {"dequeue", "enqueue", "complete", "retry", "cancel"}
  THEN <<"queue">>
  ELSE <<>>

\* the calls that can follow a call in the code of a thread
NextSites(t, site) ==
  IF t = "loop"
  THEN CASE site = "get_idle_device" -> {"get_idle_device", "dequeue"}
         [] site = "dequeue" -> {"get_idle_device", "acquire_device"}
         [] site = "acquire_device" -> {"enqueue", "submit"}
         [] OTHER -> {"get_idle_device"}
  ELSE IF t = "api"
  THEN CASE site = "return" -> {"enqueue", "cancel", "add_device", "remove_device"}
         [] OTHER -> {"return"}
  ELSE CASE site = "return" -> {"execute"}
         [] site = "execute" -> {"complete", "retry"}
         [] site \in {"complete", "retry"} -> {"release_device"}
         [] site = "release_device" -> {"callback"}
         [] OTHER -> {"return"}

\* `with self._lock`: the thread takes the next lock of its call, when it is free
LockTake(t) ==
  LET path == LockPath(threads[t].site)
      k == threads[t].held
  IN /\ k < Len(path)
     /\ lock_owner[path[k + 1]] = None
     /\ lock_owner' = [lock_owner EXCEPT ![path[k + 1]] = t]
     /\ threads' = [threads EXCEPT ![t].held = k + 1]
     /\ UNCHANGED <<PoolVars, QueueVars, CallbackVars, CronVars, ParVars, StartVars, ListVars, sched_running, worker,
                    stopper, execs>>

\* the call returns, leaving its `with` blocks, and the thread goes on to a call
\* that follows
LockLeave(t, site) ==
  /\ threads[t].held = Len(LockPath(threads[t].site))
  /\ site \in NextSites(t, threads[t].site)
  /\ lock_owner' = [l \in Locks |-> IF lock_owner[l] = t THEN None ELSE lock_owner[l]]
  /\ threads' = [threads EXCEPT ![t] = [site |-> site, held |-> 0]]
  /\ UNCHANGED <<PoolVars, QueueVars, CallbackVars, CronVars, ParVars, StartVars, ListVars, sched_running, worker,
                 stopper, execs>>

LockSites ==
  {"get_idle_device", "dequeue", "acquire_device", "enqueue", "submit", "return",
   "cancel", "add_device", "remove_device", "execute", "complete", "retry",
   "release_device", "callback"}

NextLocks ==
  \/ \E t \in LockThreads : LockTake(t)
  \/ \E t \in LockThreads, site \in LockSites : LockLeave(t, site)

SpecLocks == Init /\ [][NextLocks]_vars

\* the scheduler fed by cron templates only
NextCron ==
  \/ \E d \in DeviceIds \cup {None}, max_retries \in RetryChoices :
       AddCronJob(d, max_retries)
  \/ \E t \in templates : CronFire(t)
  \/ \E d \in DeviceIds, online \in BOOLEAN : AddDevice(d, online)
  \/ Start
  \/ WTop
  \/ WGetIdle
  \/ WDequeue
  \/ WAcquire
  \/ WRequeue
  \/ WSubmit
  \/ \E e \in 1..Len(execs), ok \in BOOLEAN : ERun(e, ok)
  \/ \E e \in 1..Len(execs) : EExcept(e)
  \/ \E e \in 1..Len(execs) : EComplete(e)
  \/ \E e \in 1..Len(execs) : ERetry(e)
  \/ \E e \in 1..Len(execs) : ECompleteFailed(e)
  \/ \E e \in 1..Len(execs) : ERelease(e)

SpecCron == Init /\ [][NextCron]_vars

\* ------------------------------------- a device that is never available

\* d1 is online; d2 is not registered or was registered with its probe failing,
\* and nothing refreshes the pool, so d2 is never IDLE.  Jobs are unpinned or
\* pinned to d2, and pending jobs may be cancelled.
NextPinned ==
  \/ \E d \in {None, "d2"}, max_retries \in RetryChoices : AddJob(d, max_retries)
  \/ \E j \in JobIds : CancelJob(j)
  \/ AddDevice("d1", TRUE)
  \/ AddDevice("d2", FALSE)
  \/ Start
  \/ WTop
  \/ WGetIdle
  \/ WDequeue
  \/ WAcquire
  \/ WRequeue
  \/ WSubmit
  \/ \E e \in 1..Len(execs), ok \in BOOLEAN : ERun(e, ok)
  \/ \E e \in 1..Len(execs) : EExcept(e)
  \/ \E e \in 1..Len(execs) : EComplete(e)
  \/ \E e \in 1..Len(execs) : ERetry(e)
  \/ \E e \in 1..Len(execs) : ECompleteFailed(e)
  \/ \E e \in 1..Len(execs) : ERelease(e)

\* the next statement of the thread of _worker_loop (a daemon thread that the
\* interpreter keeps scheduling; time.sleep(0.1) returns)
WorkerStep == WTop \/ WGetIdle \/ WDequeue \/ WAcquire \/ WRequeue \/ WSubmit

\* the next statement of the e-th call of _execute_job in the executor; the
\* executor's own call (_mock_execute, _real_execute) returns or raises
ExecStep(e) ==
  /\ e \in 1..Len(execs)
  /\ \/ \E ok \in BOOLEAN : ERun(e, ok)
     \/ EExcept(e)
     \/ EComplete(e)
     \/ ERetry(e)
     \/ ECompleteFailed(e)
     \/ ERelease(e)

\* the threads of the loop and of the executor keep running: a thread that can
\* take its next step takes it.  Callers of the API need not call anything.
FairThreads ==
  /\ WF_vars(WorkerStep)
  /\ \A e \in 1..Cardinality(DeviceIds) : WF_vars(ExecStep(e))

SpecPinned == Init /\ [][NextPinned]_vars /\ FairThreads

\* ------------------------------------------------------- run_parallel

\* Scheduler.run_parallel(tasks) is called with n tasks: jobs = []
RunParallel(n) ==
  /\ par.pc = "none"
  /\ Len(jobs) + n <= MaxJobs
  /\ par' = [par EXCEPT !.pc = "enqueue", !.n = n]
  /\ UNCHANGED <<PoolVars, QueueVars, CallbackVars, CronVars, LockVars, StartVars, ListVars,
                 sched_running, worker, stopper, execs>>

\* run_parallel, one turn of the for loop: Job(name, task) with the defaults (no
\* device_id; max_retries, 3 in job.py, here MaxRetries), _enqueue_job(job,
\* create_new=False), jobs.append(queued_job)
PEnqueue ==
  /\ par.pc = "enqueue"
  /\ LET job_id == Len(jobs) + 1
         q1 == [Q EXCEPT !.jobs = Append(@, Job(None, MaxRetries))]
         r == enqueue_job(q1, job_id, FALSE)
     IN /\ SetQ(r.q, <<>>)
        /\ fails' = Append(fails, 0)
        /\ par' = [par EXCEPT !.batch = Append(@, r.ret),
                              !.pc = IF Len(par.batch) + 1 = par.n THEN "poll" ELSE @,
                              !.scan = 1]
  /\ UNCHANGED <<PoolVars, CallbackVars, CronVars, LockVars, StartVars, ListVars,
                 sched_running, worker, stopper, execs>>

\* run_parallel, `while any(j.status in [PENDING, RUNNING] for j in jobs)`: any
\* reads one job's status at a time; on the first PENDING or RUNNING it is True
\* (sleep, evaluate again from the first job), after the last job it is False
PPoll ==
  /\ par.pc = "poll"
  /\ par' = IF jobs[par.batch[par.scan]].status \in {PENDING, RUNNING}
            THEN [par EXCEPT !.scan = 1]
            ELSE IF par.scan = par.n THEN [par EXCEPT !.pc = "return"]
            ELSE [par EXCEPT !.scan = @ + 1]
  /\ UNCHANGED <<PoolVars, QueueVars, CallbackVars, CronVars, LockVars, StartVars, ListVars,
                 sched_running, worker, stopper, execs>>

\* run_parallel: return [j.result for j in jobs if j.result]; an entry is the
\* job whose result it is and the result
PReturn ==
  /\ par.pc = "return"
  /\ LET has_result(j) == jobs[j].result # None
         kept == SelectSeq(par.batch, has_result)
     IN par' = [par EXCEPT !.pc = "returned",
                           !.results = [i \in 1..Len(kept) |->
                                          [job |-> kept[i], result |-> jobs[kept[i]].result]]]
  /\ UNCHANGED <<PoolVars, QueueVars, CallbackVars, CronVars, LockVars, StartVars, ListVars,
                 sched_running, worker, stopper, execs>>

\* a caller of run_parallel next to the loop, the executions and other callers
\* of cancel_job, add_device and remove_device
NextParallel ==
  \/ \E n \in 1..MaxJobs : RunParallel(n)
  \/ PEnqueue
  \/ PPoll
  \/ PReturn
  \/ \E j \in JobIds : CancelJob(j)
  \/ \E d \in DeviceIds, online \in BOOLEAN : AddDevice(d, online)
  \/ \E d \in DeviceIds : RemoveDevice(d)
  \/ Start
  \/ WTop
  \/ WGetIdle
  \/ WDequeue
  \/ WAcquire
  \/ WRequeue
  \/ WSubmit
  \/ \E e \in 1..Len(execs), ok \in BOOLEAN : ERun(e, ok)
  \/ \E e \in 1..Len(execs) : EExcept(e)
  \/ \E e \in 1..Len(execs) : EComplete(e)
  \/ \E e \in 1..Len(execs) : ERetry(e)
  \/ \E e \in 1..Len(execs) : ECompleteFailed(e)
  \/ \E e \in 1..Len(execs) : ERelease(e)

SpecParallel == Init /\ [][NextParallel]_vars

\* ------------------------------------------------------ start and stop

\* what the other steps of start(), stop() and _worker_loop leave alone
StartFrame == <<ListVars, PoolVars, QueueVars, CallbackVars, CronVars, LockVars, ParVars,
                worker, stopper, execs>>

\* a caller calls start(blocking=False)
CallStart(c) ==
  /\ calls[c].pc = "idle"
  /\ calls[c].made < MaxCalls
  /\ calls' = [calls EXCEPT ![c].pc = "start_check", ![c].made = @ + 1]
  /\ UNCHANGED <<StartFrame, sched_running, aps_running, exec_down, loops>>

\* start: if self._running: return
StartCheck(c) ==
  /\ calls[c].pc = "start_check"
  /\ calls' = [calls EXCEPT ![c].pc = IF sched_running THEN "idle" ELSE "start_set"]
  /\ UNCHANGED <<StartFrame, sched_running, aps_running, exec_down, loops>>

\* start: self._running = True
StartSet(c) ==
  /\ calls[c].pc = "start_set"
  /\ sched_running' = TRUE
  /\ calls' = [calls EXCEPT ![c].pc = "start_scheduler"]
  /\ UNCHANGED <<StartFrame, aps_running, exec_down, loops>>

\* start: self._scheduler.start(); APScheduler raises SchedulerAlreadyRunningError
\* when it is running, which ends the call of start()
StartScheduler(c) ==
  /\ calls[c].pc = "start_scheduler"
  /\ aps_running' = TRUE
  /\ calls' = [calls EXCEPT ![c].pc = IF aps_running THEN "idle" ELSE "start_thread"]
  /\ UNCHANGED <<StartFrame, sched_running, exec_down, loops>>

\* start: threading.Thread(target=self._worker_loop, daemon=True).start()
StartThread(c) ==
  /\ calls[c].pc = "start_thread"
  /\ loops' = Append(loops, "top")
  /\ calls' = [calls EXCEPT ![c].pc = "idle"]
  /\ UNCHANGED <<StartFrame, sched_running, aps_running, exec_down>>

\* a caller calls stop()
CallStop(c) ==
  /\ calls[c].pc = "idle"
  /\ calls[c].made < MaxCalls
  /\ calls' = [calls EXCEPT ![c].pc = "stop_flag", ![c].made = @ + 1]
  /\ UNCHANGED <<StartFrame, sched_running, aps_running, exec_down, loops>>

\* stop: self._running = False
StopSetFlag(c) ==
  /\ calls[c].pc = "stop_flag"
  /\ sched_running' = FALSE
  /\ calls' = [calls EXCEPT ![c].pc = "stop_scheduler"]
  /\ UNCHANGED <<StartFrame, aps_running, exec_down, loops>>

\* stop: self._scheduler.shutdown(); APScheduler raises SchedulerNotRunningError
\* when it is not running, which ends the call of stop()
StopScheduler(c) ==
  /\ calls[c].pc = "stop_scheduler"
  /\ aps_running' = FALSE
  /\ calls' = [calls EXCEPT ![c].pc = IF aps_running THEN "stop_executor" ELSE "idle"]
  /\ UNCHANGED <<StartFrame, sched_running, exec_down, loops>>

\* stop: self._executor.shutdown(wait=True); self._device_pool.shutdown(); no
\* execution is in progress here, so the calls return
StopExecutor(c) ==
  /\ calls[c].pc = "stop_executor"
  /\ exec_down' = TRUE
  /\ calls' = [calls EXCEPT ![c].pc = "idle"]
  /\ UNCHANGED <<StartFrame, sched_running, aps_running, loops>>

\* _worker_loop of the i-th thread: while self._running
LoopTop(i) ==
  /\ loops[i] = "top"
  /\ loops' = [loops EXCEPT ![i] = IF sched_running THEN "body" ELSE "exit"]
  /\ UNCHANGED <<StartFrame, sched_running, aps_running, exec_down, calls>>

\* _worker_loop of the i-th thread, one iteration: it sleeps and continues, or
\* requeues, or dispatches a job; submit raises once the executor has been shut
\* down, which ends the thread
LoopBody(i, dispatch) ==
  /\ loops[i] = "body"
  /\ loops' = [loops EXCEPT ![i] = IF dispatch /\ exec_down THEN "raised" ELSE "top"]
  /\ UNCHANGED <<StartFrame, sched_running, aps_running, exec_down, calls>>

\* the threads that are in _worker_loop
ActiveLoops == {i \in 1..Len(loops) : loops[i] \in {"top", "body"}}

NextStart ==
  \/ \E c \in Callers : CallStart(c)
  \/ \E c \in Callers : StartCheck(c)
  \/ \E c \in Callers : StartSet(c)
  \/ \E c \in Callers : StartScheduler(c)
  \/ \E c \in Callers : StartThread(c)
  \/ \E c \in Callers : CallStop(c)
  \/ \E c \in Callers : StopSetFlag(c)
  \/ \E c \in Callers : StopScheduler(c)
  \/ \E c \in Callers : StopExecutor(c)
  \/ \E i \in 1..Len(loops) : LoopTop(i)
  \/ \E i \in 1..Len(loops), dispatch \in BOOLEAN : LoopBody(i, dispatch)

SpecStart == Init /\ [][NextStart]_vars

\* ------------------------------------------------------------ properties

Registered(d) == DevIndex(devices, d) # 0
Dev(d) == devices[DevIndex(devices, d)]
JobsMade == 1..Len(jobs)
InPending(j) == Count(queue, j)
InRunning(j) == IF j \in running THEN 1 ELSE 0
InHistory(j) == Count(history, j)

\* C1: in every state of the pool reached by add, remove, acquire, release and
\* refresh, a device is BUSY exactly when its current_job_id is set.
C1_BusyIffJob ==
  \A i \in 1..Len(devices) :
    (devices[i].status = BUSY) <=> (devices[i].current_job_id # NoJob)

\* a device holds a job while another one has been released after use
C1_Witness ==
  /\ \E i \in 1..Len(devices) : devices[i].status = BUSY /\ devices[i].current_job_id # NoJob
  /\ \E i \in 1..Len(devices) : devices[i].status # BUSY /\ devices[i].total_jobs > 0

\* C2: every job that was enqueued and has not been evicted from history is in
\* exactly one of pending, running and history.
C2_ExactlyOneCollection ==
  \A j \in JobsMade :
    j \notin evicted => InPending(j) + InRunning(j) + InHistory(j) = 1

\* C3: of the acquire calls made on a device while it stays BUSY at most one
\* returned True, and current_job_id is the job id of that call.
C3_AtMostOneOwner ==
  \A d \in DeviceIds :
    /\ Cardinality(holders[d].won) <= 1
    /\ (Registered(d) /\ Dev(d).status = BUSY) => holders[d].won = {Dev(d).current_job_id}

\* a BUSY device on which a call with another job id has been refused
C3_Witness ==
  \E d \in DeviceIds :
    /\ Registered(d) /\ Dev(d).status = BUSY
    /\ holders[d].lost \ holders[d].won # {}

\* C4: at most one execution is in progress on a device; an execution is handed to
\* the executor only for a device acquired for its job, and the device stays BUSY
\* for that job until the execution has released it.
C4_OneExecutionPerDevice ==
  /\ \A e \in 1..Len(execs) :
       /\ Registered(execs[e].device)
       /\ Dev(execs[e].device).status = BUSY
       /\ Dev(execs[e].device).current_job_id = execs[e].job
       /\ \A e2 \in 1..Len(execs) : execs[e2].device = execs[e].device => e2 = e
  /\ worker.pc = "submit" =>
       /\ Registered(worker.target)
       /\ Dev(worker.target).status = BUSY
       /\ Dev(worker.target).current_job_id = worker.job
       /\ \A e \in 1..Len(execs) : execs[e].device # worker.target

\* a job is executing on a device for which the loop has just been refused another job
C4_Witness ==
  \E e \in 1..Len(execs) :
    /\ execs[e].pc = "run"
    /\ worker.pc = "requeue"
    /\ worker.target = execs[e].device
    /\ worker.job # execs[e].job

\* C5: release on an IDLE device and acquire on a BUSY device return False and
\* leave the device record unchanged.
C5_NoOpOnIdleOrBusy ==
  \A d \in DeviceIds :
    /\ (Registered(d) /\ Dev(d).status = IDLE) =>
         \A success \in BOOLEAN :
           release_device(devices, d, success) = [devices |-> devices, ret |-> FALSE]
    /\ (Registered(d) /\ Dev(d).status = BUSY) =>
         \A j \in JobIds :
           acquire_device(devices, d, j) = [devices |-> devices, ret |-> FALSE]

\* the completion handling of job j still has its queue call to make
Handling(j) ==
  \E e \in 1..Len(execs) :
    execs[e].job = j /\ execs[e].pc \in {"except", "retry", "complete_failed"}

\* the number of jobs appended to history after the (first) time j was
ArchivedAfter(j) ==
  LET p == CHOOSE i \in 1..Len(archived) :
             archived[i] = j /\ \A k \in 1..(i - 1) : archived[k] # j
  IN Len(archived) - p

\* C6: a job whose execution has failed max_retries + 1 times is FAILED with
\* retry_count = max_retries, has been put in history exactly once, stays there
\* until max_history later entries push it out, and is neither pending nor running.
C6_RetryBound ==
  \A j \in JobsMade :
    (fails[j] = jobs[j].max_retries + 1 /\ ~Handling(j)) =>
      /\ jobs[j].status = FAILED
      /\ jobs[j].retry_count = jobs[j].max_retries
      /\ Count(archived, j) = 1
      /\ InHistory(j) = (IF j \in evicted THEN 0 ELSE 1)
      /\ j \in evicted => ArchivedAfter(j) >= max_history
      /\ InPending(j) = 0
      /\ InRunning(j) = 0

\* a job with a retry budget has used it up and failed for good
C6_Witness ==
  \E j \in JobsMade :
    /\ jobs[j].max_retries > 0
    /\ fails[j] = jobs[j].max_retries + 1
    /\ ~Handling(j)
    /\ InHistory(j) = 1

\* C7: every step changes pending in one of these ways only: dequeue takes the
\* head, enqueue appends at the tail, retry puts the job back at the front,
\* cancel and clear remove jobs; the order of the other jobs is kept.
C7_FifoRetryFirst ==
  [][ \/ queue' = queue
      \/ /\ queue # <<>>
         /\ queue' = Tail(queue)
         /\ Head(queue) \in running'
         /\ jobs'[Head(queue)].status = RUNNING
      \/ /\ Len(jobs') = Len(jobs) + 1
         /\ queue' = Append(queue, Len(jobs'))
      \/ \E j \in running :
           /\ queue' = <<j>> \o queue
           /\ jobs'[j].retry_count = jobs[j].retry_count + 1
           /\ jobs[j].retry_count < jobs[j].max_retries
      \/ \E i \in 1..Len(queue) :
           /\ queue' = RemoveAt(queue, i)
           /\ jobs'[queue[i]].status = CANCELLED
      \/ /\ queue' = <<>>
         /\ history' = history \o queue
    ]_vars

\* a retried job is at the head, ahead of jobs that were enqueued after it
C7_Witness ==
  /\ Len(queue) >= 3
  /\ jobs[Head(queue)].retry_count > 0
  /\ \A i \in 2..Len(queue) : queue[i] > Head(queue) /\ jobs[queue[i]].retry_count = 0

\* C8: when jobs are only enqueued, dequeued and completed, history is the last
\* max_history completed jobs in completion order, the older ones having been evicted.
C8_HistoryKeepsNewest ==
  LET k == Len(archived) IN
  IF k > max_history
  THEN /\ history = SubSeq(archived, k - max_history + 1, k)
       /\ Len(history) = max_history
       /\ evicted = Range(SubSeq(archived, 1, k - max_history))
  ELSE /\ history = archived
       /\ evicted = {}

\* more jobs than the capacity have been completed, not in the order of their ids
C8_Witness ==
  /\ Len(archived) > max_history
  /\ Len(history) = max_history
  /\ \E i \in 1..(Len(history) - 1) : history[i] > history[i + 1]

\* C9: the length of history never exceeds the configured capacity.
C9_HistoryBounded == Len(history) <= max_history

\* C10: cancel of a pending job returns True, removes it from pending and archives
\* it as CANCELLED; cancel of a running or unknown id returns False and changes nothing.
C10_CancelOnlyPending ==
  \A j \in QueueJobIds :
    LET r == cancel(Q, j) IN
    IF InPending(j) > 0
    THEN /\ r.ret = TRUE
         /\ Count(r.q.queue, j) = InPending(j) - 1
         /\ r.q.history = Append(history, j)
         /\ r.q.jobs[j].status = CANCELLED
         /\ r.q.running = running
         /\ \A k \in JobsMade \ {j} : r.q.jobs[k] = jobs[k]
    ELSE r = [q |-> Q, ret |-> FALSE]

\* one job has been cancelled while pending and another one is running
C10_Witness ==
  /\ \E j \in JobsMade : jobs[j].status = CANCELLED /\ InHistory(j) = 1
  /\ \E j \in JobsMade : jobs[j].status = RUNNING /\ j \in running /\ InPending(j) = 0

\* C17: remove of a BUSY device and of an unknown id return False and leave the
\* pool unchanged; remove of a registered device that is not BUSY returns True
\* and deletes that device only.
C17_RemoveRefusedWhenBusy ==
  \A d \in DeviceIds :
    LET r == remove_device(devices, d) IN
    IF Registered(d) /\ Dev(d).status # BUSY
    THEN /\ r.ret = TRUE
         /\ DevIndex(r.devices, d) = 0
         /\ r.devices = RemoveAt(devices, DevIndex(devices, d))
         /\ \A d2 \in DeviceIds \ {d} :
              Registered(d2) =>
                /\ DevIndex(r.devices, d2) # 0
                /\ r.devices[DevIndex(r.devices, d2)] = Dev(d2)
    ELSE r = [devices |-> devices, ret |-> FALSE]

\* a device is BUSY for a job after earlier use, next to a registered device that
\* is OFFLINE
C17_Witness ==
  /\ \E i \in 1..Len(devices) :
       devices[i].status = BUSY /\ devices[i].current_job_id # NoJob
                                /\ devices[i].total_jobs > 0
  /\ \E i \in 1..Len(devices) : devices[i].status = OFFLINE

\* C19: an execution of a job with a pinned device runs on that device, on the
\* first attempt and on retries; the device the loop has acquired for a job is the
\* pinned one, or for a job without one the idle device found in this iteration.
C19_PinnedDeviceOnly ==
  /\ \A e \in 1..Len(execs) :
       jobs[execs[e].job].device_id # None =>
         execs[e].device = jobs[execs[e].job].device_id
  /\ worker.pc \in {"submit", "requeue"} =>
       /\ worker.idle # None
       /\ worker.target = (IF jobs[worker.job].device_id # None
                            THEN jobs[worker.job].device_id ELSE worker.idle)

\* a pinned job is retried on its device while the device that get_idle_device
\* returns first is IDLE
C19_Witness ==
  \E e \in 1..Len(execs) :
    /\ jobs[execs[e].job].device_id = execs[e].device
    /\ jobs[execs[e].job].retry_count > 0
    /\ get_idle_device(devices) \notin {None, execs[e].device}

\* C14: when acquire_device is refused for the job the loop has dequeued, no device
\* record changes, and the enqueue that follows puts the job at the tail of pending
\* as PENDING with its retry_count unchanged and leaves it in pending only: not in
\* running and not in history.
C14_RequeueKeepsQueueSound ==
  [][ /\ (WAcquire /\ worker'.pc = "requeue") => devices' = devices
      /\ WRequeue =>
           /\ devices' = devices
           /\ queue' = Append(queue, worker.job)
           /\ jobs'[worker.job].status = PENDING
           /\ jobs'[worker.job].retry_count = jobs[worker.job].retry_count
           /\ Count(queue', worker.job) = 1
           /\ worker.job \notin running'
           /\ Count(history', worker.job) = 0
    ]_vars

\* C15: when an execution has failed and the job has retry budget left, retry
\* returns True and makes the job PENDING at the front of pending with retry_count
\* one higher, out of running and not appended to history; the release_device that
\* follows returns True whatever has become of the job meanwhile, and leaves the
\* device IDLE without a job and with failed_jobs and total_jobs one higher.
C15_RetryThenRelease ==
  \A e \in 1..Len(execs) :
    LET j == execs[e].job
        d == execs[e].device
    IN /\ execs[e].pc = "retry" =>
            LET r == retry(Q, j) IN
            /\ jobs[j].retry_count < jobs[j].max_retries
            /\ r.ret = TRUE
            /\ r.q.queue = <<j>> \o queue
            /\ r.q.jobs[j].status = PENDING
            /\ r.q.jobs[j].retry_count = jobs[j].retry_count + 1
            /\ j \notin r.q.running
            /\ r.q.history = history
       /\ execs[e].pc = "release_failed" =>
            LET r == release_device(devices, d, FALSE)
                i == DevIndex(r.devices, d)
            IN /\ r.ret = TRUE
               /\ i # 0
               /\ r.devices[i].status = IDLE
               /\ r.devices[i].current_job_id = NoJob
               /\ r.devices[i].failed_jobs = Dev(d).failed_jobs + 1
               /\ r.devices[i].success_jobs = Dev(d).success_jobs
               /\ r.devices[i].total_jobs = Dev(d).total_jobs + 1

\* a failed job is back at the head of pending, ahead of another job, with one
\* retry counted and nothing archived, and its device is still to be released
C15_Witness ==
  \E e \in 1..Len(execs) :
    /\ execs[e].pc = "release_failed"
    /\ Len(queue) >= 2
    /\ Head(queue) = execs[e].job
    /\ jobs[execs[e].job].status = PENDING
    /\ jobs[execs[e].job].retry_count = 1
    /\ archived = <<>>
    /\ Dev(execs[e].device).status = BUSY

\* the steps allowed to a failure of job j on device d: the records of the other
\* jobs, their places in pending and running, the set of registered devices and
\* the records of the other devices stay as they are; history loses an entry only
\* to the capacity limit
FailureFrame(j, d) ==
  /\ Len(jobs') = Len(jobs)
  /\ \A k \in JobsMade \ {j} : jobs'[k] = jobs[k]
  /\ jobs'[j].device_id = jobs[j].device_id
  /\ jobs'[j].max_retries = jobs[j].max_retries
  /\ SelectSeq(queue', LAMBDA k : k # j) = SelectSeq(queue, LAMBDA k : k # j)
  /\ running' \ {j} = running \ {j}
  /\ Range(history) \ {j} \subseteq Range(history') \cup evicted'
  /\ Len(devices') = Len(devices)
  /\ \A i \in 1..Len(devices) :
       /\ devices'[i].device_id = devices[i].device_id
       /\ devices[i].device_id # d => devices'[i] = devices[i]

\* C20: the steps that handle a failure of a job (the execution raising, retry,
\* complete(success=False), the release that follows, and the push-back after a
\* refused acquire) change only that job's record and collection and the record
\* of its device: every other job keeps its record and its place in pending and
\* running, and every device stays registered.
C20_FailureIsLocal ==
  [][ /\ \A e \in 1..Len(execs) :
           ( \/ ERun(e, FALSE)
             \/ EExcept(e)
             \/ ERetry(e)
             \/ ECompleteFailed(e)
             \/ (execs[e].pc = "release_failed" /\ ERelease(e)) )
           => FailureFrame(execs[e].job, execs[e].device)
      /\ (WAcquire /\ worker'.pc = "requeue") => FailureFrame(worker.job, worker'.target)
      /\ WRequeue => FailureFrame(worker.job, worker.target)
    ]_vars

\* a job has failed for good while another job is pending behind a retried one
\* and both devices are registered
C20_Witness ==
  /\ \E j \in JobsMade : jobs[j].status = FAILED /\ InHistory(j) = 1
  /\ \E k \in JobsMade : jobs[k].status = PENDING /\ InPending(k) = 1
  /\ Len(devices) = 2
  /\ \E i \in 1..Len(devices) : devices[i].failed_jobs > 0

\* an execution of job j has not ended yet
Executing(j) == \E e \in 1..Len(execs) : execs[e].job = j

\* C12: with a completion callback registered, the callback is invoked with a job
\* only when the job is in a final state (SUCCESS or FAILED), at most once per job,
\* and exactly once when the job's last execution has ended.
C12_CallbackOncePerJob ==
  /\ \A c \in called : c.status \in {SUCCESS, FAILED}
  /\ \A j \in JobsMade :
       /\ Calls(j) <= 1
       /\ (jobs[j].status \in {SUCCESS, FAILED} /\ ~Executing(j)) => Calls(j) = 1

\* C13: when the completion callback is invoked, and so when it raises, the queue
\* call of the execution (complete or retry) and its release_device have both
\* returned True; a device is BUSY only for an execution that has not reached its
\* release yet or for the job the loop is submitting, so no device is left BUSY by
\* a callback; and the assignment loop is still in its cycle.
C13_CallbackAfterRelease ==
  /\ \A e \in 1..Len(execs) :
       execs[e].pc = "callback" => execs[e].moved /\ execs[e].released
  /\ \A i \in 1..Len(devices) :
       devices[i].status = BUSY =>
         \/ \E e \in 1..Len(execs) :
              /\ execs[e].device = devices[i].device_id
              /\ execs[e].job = devices[i].current_job_id
              /\ execs[e].pc # "callback"
         \/ /\ worker.pc = "submit"
            /\ worker.target = devices[i].device_id
            /\ worker.job = devices[i].current_job_id
  /\ worker.pc \in {"none", "top", "get_idle", "dequeue", "acquire", "requeue", "submit"}

\* a callback has raised, and a job added after that is executing on the device
\* of the execution whose callback raised
C13_Witness ==
  \E c \in cb_raised :
    \E e \in 1..Len(execs) :
      /\ execs[e].device = c.device
      /\ execs[e].job > c.made
      /\ execs[e].pc = "run"

\* C16: every firing of a cron template has enqueued a Job object that is not a
\* template, that no other firing has enqueued, that had retry_count 0 then and
\* has the template's cron (with name and task), device_id and max_retries; a
\* template is never in pending, running or history and stays as constructed.
C16_FiringMakesNewJob ==
  /\ \A f \in fired :
       /\ f.job # f.template
       /\ f.job \notin templates
       /\ f.retry_count = 0
       /\ jobs[f.job].cron = jobs[f.template].cron
       /\ jobs[f.job].device_id = jobs[f.template].device_id
       /\ jobs[f.job].max_retries = jobs[f.template].max_retries
       /\ \A g \in fired : g.job = f.job => g = f
  /\ \A t \in templates :
       /\ InPending(t) = 0
       /\ t \notin running
       /\ InHistory(t) = 0
       /\ jobs[t] = CronJob(jobs[t].cron, jobs[t].device_id, jobs[t].max_retries)

\* a template has fired twice: the job of the first firing has been retried and
\* the job of the second firing is pending
C16_Witness ==
  \E f \in fired, g \in fired :
    /\ f.template = g.template
    /\ f.n < g.n
    /\ jobs[f.job].retry_count > 0
    /\ InPending(g.job) = 1
    /\ jobs[g.job].retry_count = 0

\* C11: with one device and jobs without a pinned device, at most one call of
\* _execute_job is submitted at a time (one worker slot is enough); while the
\* device is BUSY for a job, and while the loop holds a dequeued job, every other
\* job that has not ended is PENDING in pending and has not been dequeued; the
\* acquire is never refused; and once every job has succeeded and its execution
\* has ended, idle_count is 1, pending_count is 0, running is empty and history
\* holds the jobs in the order of their submission.
C11_OneDeviceInOrder ==
  /\ Len(execs) <= 1
  /\ worker.pc # "requeue"
  /\ Cardinality(running) <= 1
  /\ \A k \in JobsMade :
       (\/ \E i \in 1..Len(devices) :
              devices[i].status = BUSY /\ devices[i].current_job_id # k
        \/ worker.job \notin {NoJob, k})
       => /\ jobs[k].status \in {PENDING, SUCCESS, FAILED}
          /\ k \notin running
          /\ jobs[k].status = PENDING => InPending(k) = 1
  /\ (/\ jobs # <<>>
      /\ \A j \in JobsMade : jobs[j].status = SUCCESS
      /\ execs = <<>>
      /\ devices # <<>>)
     => /\ idle_count(devices) = 1
        /\ pending_count(Q) = 0
        /\ running = {}
        /\ history = [i \in 1..Len(jobs) |-> i]

\* two jobs have run on the one device and both have succeeded, the first one
\* after a retry
C11_Witness ==
  /\ Len(jobs) = 2
  /\ \A j \in JobsMade : jobs[j].status = SUCCESS
  /\ jobs[1].retry_count > 0
  /\ execs = <<>>
  /\ devices # <<>>
  /\ history = <<1, 2>>
  /\ idle_count(devices) = 1

\* the locks thread t holds
HeldBy(t) == {l \in Locks : lock_owner[l] = t}

\* the lock thread t is waiting for, None when it is not waiting
WaitsFor(t) ==
  LET path == LockPath(threads[t].site)
      k == threads[t].held
  IN IF k < Len(path) /\ lock_owner[path[k + 1]] # None THEN path[k + 1] ELSE None

\* C18: no thread (the assignment loop, an execution, an API caller) holds the
\* pool's lock and the queue's lock at the same time, no thread waits for a lock
\* while it holds one, and so no two threads each hold the lock the other waits for.
C18_NeverBothLocks ==
  /\ \A t \in LockThreads :
       /\ Cardinality(HeldBy(t)) <= 1
       /\ WaitsFor(t) # None => HeldBy(t) = {}
  /\ \A t1 \in LockThreads, t2 \in LockThreads :
       ~(/\ WaitsFor(t1) # None /\ lock_owner[WaitsFor(t1)] = t2
         /\ WaitsFor(t2) # None /\ lock_owner[WaitsFor(t2)] = t1)

\* an execution is inside release_device under the pool's lock, the API caller
\* is inside a queue call, and the loop waits for the pool's lock
C18_Witness ==
  /\ lock_owner["pool"] \in {"exec1", "exec2"}
  /\ threads[lock_owner["pool"]].site = "release_device"
  /\ lock_owner["queue"] = "api"
  /\ WaitsFor("loop") = "pool"

\* C21: add_device of a registered id returns False and leaves the pool, and so
\* the record of that device, unchanged; add_device of a new id returns True and
\* appends a record that is IDLE when the probe succeeds and OFFLINE when it
\* fails, without a job and with zero counters, the other records staying.
C21_AddKeepsExisting ==
  \A d \in DeviceIds, online \in BOOLEAN :
    LET r == add_device(devices, d, online) IN
    IF Registered(d)
    THEN r = [devices |-> devices, ret |-> FALSE]
    ELSE /\ r.ret = TRUE
         /\ Len(r.devices) = Len(devices) + 1
         /\ SubSeq(r.devices, 1, Len(devices)) = devices
         /\ r.devices[Len(r.devices)] =
              [device_id |-> d, status |-> IF online THEN IDLE ELSE OFFLINE,
               current_job_id |-> NoJob, total_jobs |-> 0, success_jobs |-> 0,
               failed_jobs |-> 0]

\* one device is registered, BUSY for a job after earlier use, and the other id
\* is not registered
C21_Witness ==
  /\ Len(devices) = 1
  /\ devices[1].status = BUSY
  /\ devices[1].current_job_id # NoJob
  /\ devices[1].failed_jobs > 0

\* C22: get_idle_device returns None exactly when no registered device is IDLE,
\* and otherwise the id of an IDLE device such that no device registered before
\* it is IDLE; the answer is a function of the pool state, which the call does
\* not change.
C22_FirstIdleInOrder ==
  LET d == get_idle_device(devices) IN
  /\ (d = None) <=> (\A i \in 1..Len(devices) : devices[i].status # IDLE)
  /\ d # None =>
       /\ Registered(d)
       /\ Dev(d).status = IDLE
       /\ \A i \in 1..Len(devices) :
            devices[i].status = IDLE => DevIndex(devices, d) <= i

\* two IDLE devices, d2 registered before d1, and d2 is the answer
C22_Witness ==
  /\ Len(devices) = 2
  /\ devices[1].device_id = "d2"
  /\ devices[1].status = IDLE
  /\ devices[2].status = IDLE
  /\ get_idle_device(devices) = "d2"

\* C23: acquire_device on an id that is absent, OFFLINE or ERROR returns False and
\* changes nothing; and a device that stays registered leaves OFFLINE or ERROR
\* only in a refresh_status that probes it online, so it is never BUSY before.
C23_OfflineNeverAcquired ==
  [][ /\ \A d \in DeviceIds, j \in JobIds :
           (~Registered(d) \/ Dev(d).status \in {OFFLINE, ERROR}) =>
             acquire_device(devices, d, j) = [devices |-> devices, ret |-> FALSE]
      /\ \A d \in DeviceIds :
           (/\ Registered(d)
            /\ Dev(d).status \in {OFFLINE, ERROR}
            /\ DevIndex(devices', d) # 0
            /\ devices'[DevIndex(devices', d)].status \notin {OFFLINE, ERROR})
           => /\ devices'[DevIndex(devices', d)].status = IDLE
              /\ \E online \in SUBSET DeviceIds :
                   d \in online /\ devices' = refresh_status(devices, online)
    ]_vars

\* C25: refresh_status, whatever the probes answer, keeps the set and order of the
\* devices, every current_job_id and every counter; it leaves a BUSY device as it
\* is and sets every other device, one in ERROR included, to IDLE when its probe
\* succeeds and to OFFLINE when it fails.
C25_RefreshSkipsBusy ==
  \A online \in SUBSET DeviceIds :
    \A base \in {devices} \cup
                {[devices EXCEPT ![i].status = ERROR] :
                   i \in {k \in 1..Len(devices) : devices[k].status # BUSY}} :
      LET r == refresh_status(base, online) IN
      /\ Len(r) = Len(base)
      /\ \A i \in 1..Len(base) :
           /\ r[i].device_id = base[i].device_id
           /\ r[i].current_job_id = base[i].current_job_id
           /\ r[i].total_jobs = base[i].total_jobs
           /\ r[i].success_jobs = base[i].success_jobs
           /\ r[i].failed_jobs = base[i].failed_jobs
           /\ r[i].status = (IF base[i].status = BUSY THEN BUSY
                              ELSE IF base[i].device_id \in online THEN IDLE
                              ELSE OFFLINE)

\* a device is BUSY for a job, with finished jobs counted, next to a device that
\* a refresh has found offline after it had been used
C25_Witness ==
  /\ \E i \in 1..Len(devices) :
       /\ devices[i].status = BUSY
       /\ devices[i].current_job_id # NoJob
       /\ devices[i].success_jobs > 0
  /\ \E i \in 1..Len(devices) :
       devices[i].status = OFFLINE /\ devices[i].total_jobs > 0

\* C26: complete and retry with an id that is not in running (pending, archived
\* or never enqueued) return False and leave pending, running, history and every
\* job unchanged; so no job is appended to history a second time.
C26_NotRunningIsNoOp ==
  /\ \A j \in QueueJobIds :
       j \notin running =>
         /\ \A success \in BOOLEAN :
              complete(Q, j, success) = [q |-> Q, ret |-> FALSE]
         /\ retry(Q, j) = [q |-> Q, ret |-> FALSE]
  /\ \A j \in JobsMade : Count(archived, j) <= 1

\* one job is archived after its complete, one is pending after a retry, one id
\* has never been enqueued, and nothing is running
C26_Witness ==
  /\ \E j \in JobsMade : jobs[j].status = SUCCESS /\ InHistory(j) = 1
  /\ \E j \in JobsMade : InPending(j) = 1 /\ jobs[j].retry_count > 0
  /\ running = {}
  /\ Len(jobs) < MaxQueueJobs

\* C27: retry of a running job that has used up its retries returns False, makes
\* it FAILED, takes it out of running and appends it to history once, with its
\* retry_count and pending unchanged; retry of a running job with retries left
\* returns True and leaves history as it is.
C27_RetryExhaustedArchives ==
  \A j \in running :
    LET r == retry(Q, j) IN
    IF jobs[j].retry_count >= jobs[j].max_retries
    THEN /\ r.ret = FALSE
         /\ r.q.jobs[j].status = FAILED
         /\ r.q.jobs[j].retry_count = jobs[j].retry_count
         /\ j \notin r.q.running
         /\ r.q.history = Append(history, j)
         /\ Count(r.q.history, j) = 1
         /\ r.q.queue = queue
    ELSE /\ r.ret = TRUE
         /\ r.q.history = history
         /\ Count(r.q.history, j) = 0

\* a job that has been retried max_retries times is running again, and a job
\* whose retry was refused is FAILED in history
C27_Witness ==
  /\ \E j \in running : jobs[j].max_retries > 0 /\ jobs[j].retry_count = jobs[j].max_retries
  /\ \E j \in JobsMade :
       /\ jobs[j].status = FAILED
       /\ jobs[j].retry_count = jobs[j].max_retries
       /\ InHistory(j) = 1

\* C24: in every state of the scheduler each registered device has
\* total_jobs = success_jobs + failed_jobs, and its counters are the numbers of
\* executions that have ended on it: success_jobs those that returned a
\* successful result, failed_jobs those that did not (a failure that is retried
\* included).
C24_CountersCountAttempts ==
  \A i \in 1..Len(devices) :
    LET d == devices[i].device_id IN
    /\ devices[i].total_jobs = devices[i].success_jobs + devices[i].failed_jobs
    /\ devices[i].success_jobs = finished[d].success
    /\ devices[i].failed_jobs = finished[d].failed
    /\ devices[i].total_jobs = finished[d].success + finished[d].failed

\* a device has ended a failed execution whose job was retried and then a
\* successful one
C24_Witness ==
  \E i \in 1..Len(devices) :
    /\ devices[i].failed_jobs > 0
    /\ devices[i].success_jobs > 0
    /\ \E j \in JobsMade : jobs[j].retry_count > 0 /\ jobs[j].status = SUCCESS

\* C28: a job pinned to a device that is never IDLE (d2: not registered, or
\* OFFLINE) is never executed, never gets a result, never becomes FAILED (or
\* SUCCESS) and keeps retry_count 0; the loop's requeue appends the job to the
\* tail of pending and changes no retry_count; and as long as the loop runs with
\* d1 registered, a pending job pinned to d2 is dequeued and requeued again and
\* again, unless it is cancelled.
C28_PinnedWaitsForever ==
  /\ [](/\ Registered("d2") => Dev("d2").status = OFFLINE
        /\ \A j \in JobsMade :
             jobs[j].device_id = "d2" =>
               /\ ~Executing(j)
               /\ jobs[j].status \in {PENDING, RUNNING, CANCELLED}
               /\ jobs[j].retry_count = 0
               /\ jobs[j].result = None
               /\ fails[j] = 0)
  /\ [][worker.pc = "requeue" =>
          /\ queue' = Append(queue, worker.job)
          /\ \A j \in JobsMade : jobs'[j].retry_count = jobs[j].retry_count
          /\ history' = history]_worker
  /\ \A j \in JobIds :
       (IF j \in JobsMade
        THEN /\ jobs[j].device_id = "d2"
             /\ InPending(j) > 0
             /\ sched_running
             /\ Registered("d1")
        ELSE FALSE)
         ~> (IF j \in JobsMade
             THEN \/ worker.pc = "requeue" /\ worker.job = j
                  \/ jobs[j].status = CANCELLED
             ELSE FALSE)

\* the loop is about to requeue a job pinned to the registered, OFFLINE d2 after
\* a job enqueued later has ended on d1
C28_Witness ==
  /\ Registered("d2")
  /\ worker.pc = "requeue"
  /\ jobs[worker.job].device_id = "d2"
  /\ \E u \in JobsMade :
       /\ u > worker.job
       /\ jobs[u].device_id = None
       /\ jobs[u].status \in {SUCCESS, FAILED}

\* C29: with the loop running and d1 registered (and then IDLE or BUSY for ever),
\* every execution ending and the threads scheduled fairly, each enqueued job
\* without a pinned device is eventually cancelled or SUCCESS or FAILED with one
\* entry in history, also while jobs pinned to d2 are pending and requeued.
C29_UnpinnedJobsEnd ==
  /\ [](Registered("d1") => Dev("d1").status \in {IDLE, BUSY})
  /\ \A j \in JobIds :
       (IF j \in JobsMade
        THEN /\ jobs[j].device_id = None
             /\ sched_running
             /\ Registered("d1")
        ELSE FALSE)
         ~> (IF j \in JobsMade
             THEN \/ jobs[j].status = CANCELLED
                  \/ jobs[j].status \in {SUCCESS, FAILED} /\ InHistory(j) = 1
             ELSE FALSE)

\* a job without a pinned device has been retried and is SUCCESS in history
\* while a job pinned to d2, enqueued before it, is still pending
C29_Witness ==
  \E j, u \in JobsMade :
    /\ j < u
    /\ jobs[j].device_id = "d2"
    /\ jobs[j].status = PENDING
    /\ InPending(j) > 0
    /\ jobs[u].device_id = None
    /\ jobs[u].retry_count > 0
    /\ jobs[u].status = SUCCESS
    /\ InHistory(u) = 1

\* C30: run_parallel enqueues one job per task, in the order of the tasks; once
\* it is at its return statement every job of the batch is SUCCESS, FAILED or
\* CANCELLED; and it returns one result per task, the i-th being the result of
\* the i-th task's job.
C30_OneResultPerTask ==
  /\ par.pc \in {"poll", "return", "returned"} =>
       /\ Len(par.batch) = par.n
       /\ \A i \in 1..par.n : par.batch[i] = Len(jobs) - par.n + i
  /\ par.pc \in {"return", "returned"} =>
       \A i \in 1..Len(par.batch) :
         jobs[par.batch[i]].status \in {SUCCESS, FAILED, CANCELLED}
  /\ par.pc = "returned" =>
       /\ Len(par.results) = par.n
       /\ \A i \in 1..Len(par.results) :
            /\ par.results[i].job = par.batch[i]
            /\ par.results[i].result = jobs[par.batch[i]].result

\* C31: in every state of the scheduler a job id is the current_job_id of at
\* most one device.
C31_JobOnOneDevice ==
  \A i, k \in 1..Len(devices) :
    (i # k /\ devices[i].current_job_id # NoJob) =>
      devices[i].current_job_id # devices[k].current_job_id

\* C32: in every state of the scheduler the current_job_id of a BUSY device
\* names a job that is in running with status RUNNING, and that is neither in
\* history nor in pending.
C32_BusyMeansRunning ==
  \A i \in 1..Len(devices) :
    devices[i].status = BUSY =>
      LET j == devices[i].current_job_id IN
      /\ j \in JobsMade
      /\ j \in running
      /\ jobs[j].status = RUNNING
      /\ InHistory(j) = 0
      /\ InPending(j) = 0

\* C33: in every state of the queue and the loop a job in pending is PENDING, a
\* job in running is RUNNING, and a job in history is SUCCESS, FAILED or
\* CANCELLED.
C33_StatusMatchesCollection ==
  /\ \A i \in 1..Len(queue) : jobs[queue[i]].status = PENDING
  /\ \A j \in running : jobs[j].status = RUNNING
  /\ \A i \in 1..Len(history) : jobs[history[i]].status \in {SUCCESS, FAILED, CANCELLED}

\* C34: once a job is SUCCESS, FAILED or CANCELLED no step changes its status or
\* its retry_count, puts it into pending or into running, hands it to the loop,
\* or makes it the current job of a device; and while a job is CANCELLED no
\* execution of it is running or about to make its queue call.
C34_TerminalIsAbsorbing ==
  [][\A j \in JobsMade :
       jobs[j].status \in {SUCCESS, FAILED, CANCELLED} =>
         /\ jobs'[j].status = jobs[j].status
         /\ jobs'[j].retry_count = jobs[j].retry_count
         /\ Count(queue', j) = 0
         /\ j \in running' => j \in running
         /\ worker'.job = j => worker.job = j
         /\ \A d \in DeviceIds :
              (Registered(d)' /\ Dev(d)'.current_job_id = j) =>
                (Registered(d) /\ Dev(d).current_job_id = j)
         /\ Cardinality({e \in 1..Len(execs') : execs'[e].job = j})
              <= Cardinality({e \in 1..Len(execs) : execs[e].job = j})
         /\ jobs[j].status = CANCELLED =>
              \A e \in 1..Len(execs) :
                execs[e].job = j => execs[e].pc \in {"release_ok", "release_failed"}]_vars

\* cancel has returned True for a job that the loop had dequeued and put back
\* (the job is CANCELLED in history and still a key of running), and the loop is
\* about to dequeue again
C34_Witness ==
  /\ worker.pc = "dequeue"
  /\ \E j \in JobsMade :
       /\ jobs[j].status = CANCELLED
       /\ j \in running
       /\ InHistory(j) = 1
       /\ InPending(j) = 0

\* C35: in every state of the scheduler each job has 0 <= retry_count <=
\* max_retries, its retry_count is at most the number of its executions that
\* raised, and its executions (those that raised, the one that returned, and the
\* one in progress) number at most max_retries + 1; the loop's requeue after a
\* refused acquire changes no retry_count and starts, ends and counts no
\* execution.
C35_RetryBudget ==
  /\ [](\A j \in JobsMade :
          /\ jobs[j].max_retries >= 0
          /\ 0 <= jobs[j].retry_count
          /\ jobs[j].retry_count <= jobs[j].max_retries
          /\ jobs[j].retry_count <= fails[j]
          /\ fails[j]
               + Cardinality({e \in 1..Len(execs) : execs[e].job = j /\ execs[e].pc = "run"})
               + (IF jobs[j].result = "ok" THEN 1 ELSE 0)
               <= jobs[j].max_retries + 1)
  /\ [][worker.pc = "requeue" =>
          /\ \A j \in JobsMade : jobs'[j].retry_count = jobs[j].retry_count
          /\ fails' = fails
          /\ execs' = execs]_worker

\* the loop is about to requeue a job that has failed max_retries > 0 times and
\* has been retried as often, while another job has run max_retries + 1 times
C35_Witness ==
  /\ worker.pc = "requeue"
  /\ jobs[worker.job].max_retries > 0
  /\ jobs[worker.job].retry_count = jobs[worker.job].max_retries
  /\ fails[worker.job] = jobs[worker.job].max_retries
  /\ \E j \in JobsMade :
       /\ j # worker.job
       /\ jobs[j].max_retries > 0
       /\ fails[j] = jobs[j].max_retries
       /\ jobs[j].result = "ok"

\* C36: once stop() has returned no execution is in progress, no device is BUSY,
\* and the loop holds no job for which it has acquired a device.
C36_StopLeavesNothingBusy ==
  stopper = "returned" =>
    /\ execs = <<>>
    /\ \A i \in 1..Len(devices) : devices[i].status # BUSY
    /\ worker.pc \notin {"submit", "raised"}

\* C37: in every state at most one thread is in _worker_loop.
C37_OneLoop ==
  Cardinality(ActiveLoops) <= 1

\* C38: the list that list_history(limit) returned, for a limit >= 0, has at
\* most limit jobs: the last min(limit, length) jobs of history as it was at the
\* call, in their order; and no later step of the queue changes the list.
C38_HistoryLimit ==
  /\ [](listed.called =>
          LET n == Len(listed.of)
              k == IF listed.limit < n THEN listed.limit ELSE n
          IN /\ listed.limit >= 0
             /\ Len(listed.ret) <= listed.limit
             /\ listed.ret = SubSeq(listed.of, n - k + 1, n))
  /\ [][history' # history => listed' = listed]_vars

\* C39: Scheduler.add_device(id) for an id that is not registered returns True
\* and leaves the pool with a record for id, the other records unchanged; with
\* mock_mode that record is IDLE.
C39_SchedulerAddDevice ==
  \A d \in DeviceIds, mock_mode \in BOOLEAN :
    ~Registered(d) =>
      LET r == scheduler_add_device(devices, d, mock_mode) IN
      /\ ~r.raised
      /\ r.ret = TRUE
      /\ Len(r.devices) = Len(devices) + 1
      /\ SubSeq(r.devices, 1, Len(devices)) = devices
      /\ r.devices[Len(r.devices)].device_id = d
      /\ mock_mode => r.devices[Len(r.devices)].status = IDLE

====
